---- MODULE Spec2Model ----
(***************************************************************************)
(* A model of package errorkit (src/errorkit.go): the Validate helper and  *)
(* the SafeExec family of panic-recovering call wrappers.                  *)
(*                                                                         *)
(* Text is modelled as a sequence of one-character strings, so that        *)
(* formatting (fmt.Sprintf, fmt.Errorf) is computed character by           *)
(* character, as the library does.  A Go value of type `any` is a record   *)
(* [type, str, num]; an error value is a record [isNil, text, origin],     *)
(* where origin stands for the identity of the allocation (who made it).   *)
(***************************************************************************)
EXTENDS Integers, Sequences, FiniteSets, TLC

(***************************************************************************)
(* Bounds of the model.                                                    *)
(***************************************************************************)
MaxFmtLen == 3
MaxArgs == 1
NumCalls == 2

(***************************************************************************)
(* Go values.                                                              *)
(***************************************************************************)
StringValue(s) == [type |-> "string", str |-> s, num |-> 0]
IntValue(n) == [type |-> "int", str |-> <<>>, num |-> n]
ErrorValue(s) == [type |-> "error", str |-> s, num |-> 0]
BytesValue(s) == [type |-> "bytes", str |-> s, num |-> 0]
NilValue == [type |-> "nil", str |-> <<>>, num |-> 0]

\* The nil error, and a non-nil error carrying a text.
NilError == [isNil |-> TRUE, text |-> <<>>, origin |-> "none"]
NewError(text, origin) == [isNil |-> FALSE, text |-> text, origin |-> origin]

(***************************************************************************)
(* Text helpers.                                                           *)
(***************************************************************************)
DigitChars == <<"0", "1", "2", "3", "4", "5", "6", "7", "8", "9">>
IsDigit(c) == \E k \in 1..10 : DigitChars[k] = c

\* strconv-style decimal form of a natural number.
RECURSIVE Itoa(_)
Itoa(n) ==
    IF n < 10 THEN <<DigitChars[n + 1]>>
    ELSE Itoa(n \div 10) \o <<DigitChars[(n % 10) + 1]>>

\* strings.Contains
Contains(s, sub) ==
    \E k \in 0..(Len(s) - Len(sub)) :
        \A m \in 1..Len(sub) : s[k + m] = sub[m]

(***************************************************************************)
(* package fmt, for the verbs, operand types and characters that occur     *)
(* here: operands are strings, ints, errors, byte slices and nil; after a *)
(* '%' come optional width digits and then the verb character.             *)
(***************************************************************************)
PercentBang == <<"%", "!">>
NoVerbString == <<"%", "!", "(", "N", "O", "V", "E", "R", "B", ")">>
MissingString == <<"(", "M", "I", "S", "S", "I", "N", "G", ")">>
ExtraString == <<"%", "!", "(", "E", "X", "T", "R", "A", " ">>
CommaSpace == <<",", " ">>

\* reflect.TypeOf(arg).String()
TypeString(arg) ==
    CASE arg.type = "string" -> <<"s", "t", "r", "i", "n", "g">>
      [] arg.type = "int" -> <<"i", "n", "t">>
      [] arg.type = "bytes" -> <<"[", "]", "u", "i", "n", "t", "8">>
      [] arg.type = "error" -> <<"*", "e", "r", "r", "o", "r", "s", ".",
                                 "e", "r", "r", "o", "r", "S", "t", "r", "i", "n", "g">>
      [] arg.type = "nil" -> <<"<", "n", "i", "l", ">">>

\* The operand under %v.
DefaultFormat(arg) ==
    CASE arg.type = "string" -> arg.str
      [] arg.type = "error" -> arg.str
      [] arg.type = "int" -> Itoa(arg.num)
      [] arg.type = "nil" -> <<"<", "n", "i", "l", ">">>

\* (*pp).badVerb: %!verb(type=value)
BadVerb(arg, verb) ==
    PercentBang \o <<verb>> \o <<"(">> \o TypeString(arg) \o <<"=">>
        \o DefaultFormat(arg) \o <<")">>

\* (*pp).printArg
PrintArg(arg, verb) ==
    CASE arg.type = "nil" ->
            IF verb = "v" THEN DefaultFormat(arg)
            ELSE PercentBang \o <<verb>> \o <<"(">> \o TypeString(arg) \o <<")">>
      [] arg.type = "string" ->
            IF verb \in {"v", "s"} THEN arg.str ELSE BadVerb(arg, verb)
      [] arg.type = "int" ->
            IF verb \in {"v", "d"} THEN Itoa(arg.num) ELSE BadVerb(arg, verb)
      [] arg.type = "error" /\ verb \in {"v", "s"} -> arg.str
      [] arg.type = "bytes" /\ verb = "s" -> arg.str

\* (*pp).missingArg
MissingArg(verb) == PercentBang \o <<verb>> \o MissingString

\* The "%!(EXTRA type=value, ...)" tail for the operands from argNum on;
\* a nil operand is written as "<nil>" alone.
RECURSIVE ExtraList(_, _)
ExtraList(a, k) ==
    IF k > Len(a) THEN <<>>
    ELSE (IF a[k].type = "nil" THEN TypeString(a[k])
          ELSE TypeString(a[k]) \o <<"=">> \o PrintArg(a[k], "v"))
         \o (IF k < Len(a) THEN CommaSpace ELSE <<>>) \o ExtraList(a, k + 1)

ExtraArgs(a, argNum) ==
    IF argNum <= Len(a) THEN ExtraString \o ExtraList(a, argNum) \o <<")">>
    ELSE <<>>

\* Index of the first character at or after i that is not a width digit.
RECURSIVE SkipWidth(_, _)
SkipWidth(format, i) ==
    IF i <= Len(format) /\ IsDigit(format[i]) THEN SkipWidth(format, i + 1)
    ELSE i

\* (*pp).doPrintf from position i with argNum the next operand.
\* A width is only ever met where no operand is left (the template
\* alphabet has no digits), so no padding arises.
RECURSIVE DoPrintf(_, _, _, _)
DoPrintf(format, a, i, argNum) ==
    IF i > Len(format) THEN ExtraArgs(a, argNum)
    ELSE IF format[i] # "%" THEN <<format[i]>> \o DoPrintf(format, a, i + 1, argNum)
    ELSE LET j == SkipWidth(format, i + 1) IN
         IF j > Len(format) THEN NoVerbString \o ExtraArgs(a, argNum)
         ELSE LET verb == format[j] IN
              IF verb = "%" THEN <<"%">> \o DoPrintf(format, a, j + 1, argNum)
              ELSE IF argNum > Len(a)
                   THEN MissingArg(verb) \o DoPrintf(format, a, j + 1, argNum)
                   ELSE PrintArg(a[argNum], verb)
                        \o DoPrintf(format, a, j + 1, argNum + 1)

\* fmt.Sprintf
Sprintf(format, a) == DoPrintf(format, a, 1, 1)

\* fmt.Errorf: a new error whose text is the formatted string.
Errorf(format, a, origin) == NewError(Sprintf(format, a), origin)

\* Variant of Validate: the test of the condition is inverted.
ValidateInverted(condition, format, args) ==
    IF condition THEN Errorf(Sprintf(format, args), <<>>, "Validate")
    ELSE NilError

(***************************************************************************)
(* Validate (errorkit.go:9-14).                                            *)
(***************************************************************************)
Validate(condition, format, args) ==
    IF ~condition THEN Errorf(Sprintf(format, args), <<>>, "Validate")
    ELSE NilError

(***************************************************************************)
(* Texts used by the library and by the computations of the model.         *)
(***************************************************************************)
PanicPrefix ==
    <<"p", "a", "n", "i", "c", " ", "o", "c", "c", "u", "r", "r", "e", "d", ":", " ">>
PanicOccurred ==
    <<"p", "a", "n", "i", "c", " ", "o", "c", "c", "u", "r", "r", "e", "d", ":">>
StackTraceHeader ==
    <<"\n", "S", "t", "a", "c", "k", " ", "t", "r", "a", "c", "e", ":", "\n">>
\* "panic occurred: %v\nStack trace:\n%s" (errorkit.go:21)
PanicFormat == PanicPrefix \o <<"%", "v">> \o StackTraceHeader \o <<"%", "s">>

\* (*runtime.PanicNilError).Error()
PanicNilText ==
    <<"p", "a", "n", "i", "c", " ", "c", "a", "l", "l", "e", "d", " ",
      "w", "i", "t", "h", " ", "n", "i", "l", " ",
      "a", "r", "g", "u", "m", "e", "n", "t", " ",
      "(", "o", "b", "s", "o", "l", "e", "t", "e", ")">>

TestErrorText == <<"t", "e", "s", "t", " ", "e", "r", "r", "o", "r">>
PanicTestText == <<"p", "a", "n", "i", "c", " ", "t", "e", "s", "t">>
HelloText == <<"h", "e", "l", "l", "o">>
PercentText == <<"1", "0", "0", "%">>

(***************************************************************************)
(* Inputs.                                                                 *)
(***************************************************************************)
\* Characters of a Validate template, and the operands offered to it.
TemplateChars == {"%", "s", "d", "z"}
ArgValues == {StringValue(<<"a">>), StringValue(<<"%">>), IntValue(7), NilValue}

RECURSIVE SeqsUpTo(_, _)
SeqsUpTo(S, n) ==
    IF n = 0 THEN {<<>>}
    ELSE LET shorter == SeqsUpTo(S, n - 1) IN
         shorter \cup {Append(q, x) : q \in {t \in shorter : Len(t) = n - 1}, x \in S}

Templates == SeqsUpTo(TemplateChars, MaxFmtLen)
ArgLists == SeqsUpTo(ArgValues, MaxArgs)

\* Values a computation may hand to panic().
Payloads ==
    {StringValue(PanicTestText), StringValue(PercentText),
     ErrorValue(TestErrorText), IntValue(42), NilValue}

\* Errors a computation may return.
FnErrors == {NilError, NewError(TestErrorText, "fn"), NewError(PercentText, "fn")}

\* What debug.Stack() may yield.
Stacks == {<<"g", "1">>, <<"g", "2", "\n", "m", "a", "i", "n">>}

\* Result slots: (int), (int, string), (int, string, bool).
IntVals == {0, 42}
StrVals == {<<>>, HelloText}
BoolVals == {FALSE, TRUE}

ResultTuples(n) ==
    CASE n = 0 -> {<<>>}
      [] n = 1 -> {<<a>> : a \in IntVals}
      [] n = 2 -> {<<a, b>> : a \in IntVals, b \in StrVals}
      [] n = 3 -> {<<a, b, c>> : a \in IntVals, b \in StrVals, c \in BoolVals}

\* The zero value of every slot.
ZeroResults(n) ==
    CASE n = 0 -> <<>>
      [] n = 1 -> <<0>>
      [] n = 2 -> <<0, <<>>>>
      [] n = 3 -> <<0, <<>>, FALSE>>

(***************************************************************************)
(* The wrappers.                                                           *)
(***************************************************************************)
ArityVariants ==
    {"SafeExec", "SafeExecWithNoResult", "SafeExecWithResult",
     "SafeExecWithTwoResults", "SafeExecWithThreeResults"}
HandlerVariants ==
    {"SafeExecWithHandler", "SafeExecWithHandler0", "SafeExecWithHandlerWithResult",
     "SafeExecWithHandlerWithTwoResults", "SafeExecWithHandlerWithThreeResults"}
Wrappers == ArityVariants \cup HandlerVariants

\* The arity variant a handler variant calls (an arity variant is its own).
Inner(w) ==
    CASE w = "SafeExecWithHandler" -> "SafeExec"
      [] w = "SafeExecWithHandler0" -> "SafeExecWithNoResult"
      [] w = "SafeExecWithHandlerWithResult" -> "SafeExecWithResult"
      [] w = "SafeExecWithHandlerWithTwoResults" -> "SafeExecWithTwoResults"
      [] w = "SafeExecWithHandlerWithThreeResults" -> "SafeExecWithThreeResults"
      [] OTHER -> w

\* Number of typed result slots.
Arity(w) ==
    CASE Inner(w) = "SafeExecWithResult" -> 1
      [] Inner(w) = "SafeExecWithTwoResults" -> 2
      [] Inner(w) = "SafeExecWithThreeResults" -> 3
      [] OTHER -> 0

\* Whether the computation has an error result (func() has none).
FnReturnsError(w) == Inner(w) # "SafeExecWithNoResult"

\* The frames on the goroutine's stack, outermost first, while the
\* computation runs.
CallChain(w) ==
    (IF w \in HandlerVariants THEN <<w>> ELSE <<>>)
    \o (IF Inner(w) = "SafeExec" THEN <<"SafeExec", "fn">>
        ELSE <<Inner(w), "SafeExec", "closure", "fn">>)

\* Variants of HasDefer: no frame defers; the handler variants defer too.
HasDeferNowhere(frame) == FALSE
HasDeferAroundHandler(frame) == frame = "SafeExec" \/ frame \in HandlerVariants

\* The frames that registered a deferred function: only SafeExec does.
HasDefer(frame) == frame = "SafeExec"

\* Index of the innermost frame with a deferred function, 0 if none.
InnermostDefer(fr) ==
    LET ks == {k \in 1..Len(fr) : HasDefer(fr[k])} IN
    IF ks = {} THEN 0 ELSE CHOOSE k \in ks : \A m \in ks : m <= k

(***************************************************************************)
(* Panics and the deferred function of SafeExec.                           *)
(***************************************************************************)
NoPanic == [active |-> FALSE, value |-> NilValue]
Panicking(v) == [active |-> TRUE, value |-> v]

\* The value the run time carries for panic(p).  panic(nil) carries a
\* *runtime.PanicNilError, unless the program runs with the nil-panic
\* compatibility setting (GODEBUG=panicnil=1, the default of main modules
\* declaring a Go release before 1.21), where it carries nil.
PanicValue(p, nilCompat) ==
    IF p.type = "nil" /\ ~nilCompat THEN ErrorValue(PanicNilText) ELSE p

\* recover() in a deferred function: the value in flight, nil if none.
RecoverValue(infl) == IF infl.active THEN infl.value ELSE NilValue

\* Variant of SafeExecDeferred: a returned error is replaced as well.
SafeExecDeferredRewrap(infl, e, stack) ==
    LET r == RecoverValue(infl) IN
    [recovered |-> TRUE,
     err |-> IF r.type # "nil" \/ ~e.isNil
             THEN Errorf(PanicFormat, <<r, BytesValue(stack)>>, "SafeExec")
             ELSE e]

\* The deferred function of SafeExec (errorkit.go:19-23): recover() is
\* always called, which stops the panic; err is replaced when recover()
\* gave a non-nil value.
SafeExecDeferred(infl, e, stack) ==
    LET r == RecoverValue(infl) IN
    [recovered |-> TRUE,
     err |-> IF r.type # "nil"
             THEN Errorf(PanicFormat, <<r, BytesValue(stack)>>, "SafeExec")
             ELSE e]

\* Variant of ClosureAssign: the computation's variables are the slots.
ClosureAssignShared(slots, fnValues, returned) == fnValues

\* The assignment `result, fnErr = fn()` of the closure (errorkit.go:41):
\* it stores the computation's values only when the computation returns.
ClosureAssign(slots, fnValues, returned) ==
    IF returned THEN fnValues ELSE slots

\* Unwinding a panic through the frames fr: the innermost deferred
\* function runs; if it recovers, the frames above it are gone and its
\* frame returns, otherwise unwinding goes on; without any deferred
\* function the panic leaves the outermost frame.
RECURSIVE Unwind(_, _, _, _)
Unwind(fr, infl, e, stack) ==
    LET k == InnermostDefer(fr) IN
    IF k = 0 THEN [escaped |-> TRUE, by |-> "none", err |-> e]
    ELSE LET d == SafeExecDeferred(infl, e, stack) IN
         IF d.recovered THEN [escaped |-> FALSE, by |-> fr[k], err |-> d.err]
         ELSE Unwind(SubSeq(fr, 1, k - 1), infl, d.err, stack)

\* Variant of HandlerVariantReturn: zero values once there was an error.
HandlerVariantReturnZeroed(results, e) ==
    IF e.isNil THEN results ELSE ZeroResults(Len(results))

\* What a handler variant returns: the results of the arity call
\* (errorkit.go:91, 101, 111: a bare return of the named results).
HandlerVariantReturn(results, e) == results

(***************************************************************************)
(* State.  Every wrapper call has an identity in CallIds.                  *)
(***************************************************************************)
CallIds == 1..NumCalls

VARIABLES
    nilCompat,       \* the program runs with the nil-panic compatibility setting
    pc,              \* where each call is
    wrapper,         \* the wrapper each call entered
    frames,          \* the frames of the call, outermost first
    fnLocal,         \* the computation's own result variables
    fnCalls,         \* how often the computation was invoked
    fnOutcome,       \* how the computation ended
    result,          \* the result slots of the arity variant
    err,             \* the err slot of SafeExec
    inflight,        \* the panic in flight
    stackSeen,       \* the stack trace taken by the deferred function
    arityRet,        \* what the arity variant returned
    handlerCalls,    \* how often the handler was invoked
    handlerArg,      \* the error the handler was given
    handlerOutcome,  \* how the handler ended
    ret,             \* what the call returned to its caller
    escaped,         \* the panic that left the call
    parent,          \* the call whose computation made this call, 0 if none
    received,        \* the error the computation got from the wrapper it called
    vDone,           \* Validate was called
    vCondition,      \* its condition
    vFormat,         \* its template
    vArgs,           \* its operands
    vErr             \* its result

callVars ==
    <<pc, wrapper, frames, fnLocal, fnCalls, fnOutcome, result, err, inflight,
      stackSeen, arityRet, handlerCalls, handlerArg, handlerOutcome, ret, escaped,
      parent, received>>
validateVars == <<vDone, vCondition, vFormat, vArgs, vErr>>
vars == <<nilCompat, callVars, validateVars>>

NoOutcome == [kind |-> "none", values |-> <<>>, err |-> NilError, payload |-> NilValue]
NoReturn == [set |-> FALSE, results |-> <<>>, err |-> NilError]
Returned(results, e) == [set |-> TRUE, results |-> results, err |-> e]

InitCalls ==
    /\ pc = [i \in CallIds |-> "idle"]
    /\ wrapper = [i \in CallIds |-> "none"]
    /\ frames = [i \in CallIds |-> <<>>]
    /\ fnLocal = [i \in CallIds |-> <<>>]
    /\ fnCalls = [i \in CallIds |-> 0]
    /\ fnOutcome = [i \in CallIds |-> NoOutcome]
    /\ result = [i \in CallIds |-> <<>>]
    /\ err = [i \in CallIds |-> NilError]
    /\ inflight = [i \in CallIds |-> NoPanic]
    /\ stackSeen = [i \in CallIds |-> <<>>]
    /\ arityRet = [i \in CallIds |-> NoReturn]
    /\ handlerCalls = [i \in CallIds |-> 0]
    /\ handlerArg = [i \in CallIds |-> NilError]
    /\ handlerOutcome = [i \in CallIds |-> NoOutcome]
    /\ ret = [i \in CallIds |-> NoReturn]
    /\ escaped = [i \in CallIds |-> NoPanic]
    /\ parent = [i \in CallIds |-> 0]
    /\ received = [i \in CallIds |-> NilError]

InitValidateIdle ==
    /\ vDone = FALSE
    /\ vCondition = TRUE
    /\ vFormat = <<>>
    /\ vArgs = <<>>
    /\ vErr = NilError

Init ==
    /\ nilCompat \in BOOLEAN
    /\ InitCalls
    /\ InitValidateIdle

\* Variant of Call: the computation is started on its own and the wrapper
\* returns at once, without waiting for it.
CallDetached(i, w) ==
    /\ pc[i] = "idle"
    /\ pc' = [pc EXCEPT ![i] = "done"]
    /\ wrapper' = [wrapper EXCEPT ![i] = w]
    /\ result' = [result EXCEPT ![i] = ZeroResults(Arity(w))]
    /\ fnLocal' = [fnLocal EXCEPT ![i] = ZeroResults(Arity(w))]
    /\ fnCalls' = [fnCalls EXCEPT ![i] = @ + 1]
    /\ ret' = [ret EXCEPT ![i] =
           [set |-> TRUE, results |-> ZeroResults(Arity(w)), err |-> NilError]]
    /\ UNCHANGED <<nilCompat, frames, err, fnOutcome, inflight, stackSeen, arityRet,
                   handlerCalls, handlerArg, handlerOutcome, escaped, parent,
                   received, validateVars>>

(***************************************************************************)
(* The steps of a wrapper call.                                            *)
(***************************************************************************)
\* The caller enters wrapper w: the named results hold their zero values,
\* SafeExec registers its deferred function and the computation is invoked.
Call(i, w) ==
    /\ pc[i] = "idle"
    /\ pc' = [pc EXCEPT ![i] = "fn"]
    /\ wrapper' = [wrapper EXCEPT ![i] = w]
    /\ frames' = [frames EXCEPT ![i] = CallChain(w)]
    /\ result' = [result EXCEPT ![i] = ZeroResults(Arity(w))]
    /\ fnLocal' = [fnLocal EXCEPT ![i] = ZeroResults(Arity(w))]
    /\ err' = [err EXCEPT ![i] = NilError]
    /\ fnCalls' = [fnCalls EXCEPT ![i] = @ + 1]
    /\ UNCHANGED <<nilCompat, fnOutcome, inflight, stackSeen, arityRet, handlerCalls,
                   handlerArg, handlerOutcome, ret, escaped, parent,
                   received, validateVars>>

\* The computation writes its own result variables.
FnWrite(i, values) ==
    /\ pc[i] = "fn"
    /\ fnLocal[i] = ZeroResults(Arity(wrapper[i]))
    /\ values \in ResultTuples(Arity(wrapper[i])) \ {fnLocal[i]}
    /\ fnLocal' = [fnLocal EXCEPT ![i] = values]
    /\ UNCHANGED <<nilCompat, pc, wrapper, frames, fnCalls, fnOutcome, result, err,
                   inflight, stackSeen, arityRet, handlerCalls, handlerArg,
                   handlerOutcome, ret, escaped, parent,
                   received, validateVars>>

\* The arity variant returns (results, e): to the caller, or to the handler
\* variant that called it.
ArityReturn(i, results, e) ==
    /\ arityRet' = [arityRet EXCEPT ![i] = Returned(results, e)]
    /\ IF wrapper[i] \in HandlerVariants
       THEN /\ pc' = [pc EXCEPT ![i] = "check"]
            /\ frames' = [frames EXCEPT ![i] = <<wrapper[i]>>]
            /\ ret' = ret
       ELSE /\ pc' = [pc EXCEPT ![i] = "done"]
            /\ frames' = [frames EXCEPT ![i] = <<>>]
            /\ ret' = [ret EXCEPT ![i] = Returned(results, e)]

\* Variant of FnReturn: the result slots are one package-level variable
\* shared by all calls instead of the named results of each call.
FnReturnSharedSlots(i, e) ==
    /\ pc[i] = "fn"
    /\ e \in (IF FnReturnsError(wrapper[i]) THEN FnErrors ELSE {NilError})
    /\ LET slots == ClosureAssign(result[i], fnLocal[i], TRUE)
           d == SafeExecDeferred(NoPanic, e, <<>>)
       IN /\ result' = [j \in CallIds |-> slots]
          /\ err' = [err EXCEPT ![i] = d.err]
          /\ ArityReturn(i, slots, d.err)
    /\ fnOutcome' = [fnOutcome EXCEPT ![i] =
           [kind |-> "returned", values |-> fnLocal[i], err |-> e, payload |-> NilValue]]
    /\ UNCHANGED <<nilCompat, wrapper, fnLocal, fnCalls, inflight, stackSeen,
                   handlerCalls, handlerArg, handlerOutcome, escaped, parent,
                   received, validateVars>>

\* The computation returns its values and the error e (one of its own, or
\* the one it received from a wrapper it called); the closure stores
\* them, SafeExec's deferred function runs with no panic in flight, and the
\* arity variant returns.
FnReturn(i, e) ==
    /\ pc[i] = "fn"
    /\ e \in (IF FnReturnsError(wrapper[i]) THEN FnErrors \cup {received[i]}
             ELSE {NilError})
    /\ LET slots == ClosureAssign(result[i], fnLocal[i], TRUE)
           d == SafeExecDeferred(NoPanic, e, <<>>)
       IN /\ result' = [result EXCEPT ![i] = slots]
          /\ err' = [err EXCEPT ![i] = d.err]
          /\ ArityReturn(i, slots, d.err)
    /\ fnOutcome' = [fnOutcome EXCEPT ![i] =
           [kind |-> "returned", values |-> fnLocal[i], err |-> e, payload |-> NilValue]]
    /\ UNCHANGED <<nilCompat, wrapper, fnLocal, fnCalls, inflight, stackSeen,
                   handlerCalls, handlerArg, handlerOutcome, escaped, parent,
                   received, validateVars>>

\* The computation calls panic(p).
FnPanic(i, p) ==
    /\ pc[i] = "fn"
    /\ pc' = [pc EXCEPT ![i] = "panicking"]
    /\ inflight' = [inflight EXCEPT ![i] = Panicking(PanicValue(p, nilCompat))]
    /\ fnOutcome' = [fnOutcome EXCEPT ![i] =
           [kind |-> "panicked", values |-> fnLocal[i], err |-> NilError, payload |-> p]]
    /\ UNCHANGED <<nilCompat, wrapper, frames, fnLocal, fnCalls, result, err, stackSeen,
                   arityRet, handlerCalls, handlerArg, handlerOutcome, ret, escaped,
                   parent, received, validateVars>>

\* Variant of UnwindPanic: after a panic the computation is invoked again.
UnwindPanicRetry(i, stack) ==
    /\ pc[i] = "panicking"
    /\ fnCalls[i] < 3
    /\ pc' = [pc EXCEPT ![i] = "fn"]
    /\ fnCalls' = [fnCalls EXCEPT ![i] = @ + 1]
    /\ inflight' = [inflight EXCEPT ![i] = NoPanic]
    /\ UNCHANGED <<nilCompat, wrapper, frames, fnLocal, fnOutcome, result, err, stackSeen,
                   arityRet, handlerCalls, handlerArg, handlerOutcome, ret, escaped,
                   parent, received, validateVars>>

\* The run time unwinds the panic in flight; stack is what debug.Stack()
\* yields if the deferred function asks for it, which it does only when
\* recover() gave a non-nil value (errorkit.go:20-21).
UnwindPanic(i, stack) ==
    /\ pc[i] = "panicking"
    /\ LET u == Unwind(frames[i], inflight[i], err[i], stack) IN
       IF u.escaped
       THEN /\ pc' = [pc EXCEPT ![i] = "escaped"]
            /\ escaped' = [escaped EXCEPT ![i] = inflight[i]]
            /\ frames' = [frames EXCEPT ![i] = <<>>]
            /\ UNCHANGED <<result, err, stackSeen, arityRet, ret>>
       ELSE IF u.by = "SafeExec"
       THEN LET slots == ClosureAssign(result[i], fnLocal[i], FALSE) IN
            /\ result' = [result EXCEPT ![i] = slots]
            /\ err' = [err EXCEPT ![i] = u.err]
            /\ stackSeen' = [stackSeen EXCEPT ![i] =
                   IF RecoverValue(inflight[i]).type # "nil" THEN stack ELSE @]
            /\ ArityReturn(i, slots, u.err)
            /\ UNCHANGED escaped
       ELSE /\ pc' = [pc EXCEPT ![i] = "done"]
            /\ frames' = [frames EXCEPT ![i] = <<>>]
            /\ ret' = [ret EXCEPT ![i] = Returned(arityRet[i].results, NilError)]
            /\ UNCHANGED <<result, err, stackSeen, arityRet, escaped>>
    /\ inflight' = [inflight EXCEPT ![i] = NoPanic]
    /\ UNCHANGED <<nilCompat, wrapper, fnLocal, fnCalls, fnOutcome, handlerCalls,
                   handlerArg, handlerOutcome, parent,
                   received, validateVars>>

\* Variant of InvokeHandler: the handler is started and the handler
\* variant returns without waiting for it (`go handler(err)`).
InvokeHandlerAsync(i) ==
    /\ pc[i] = "check"
    /\ ~arityRet[i].err.isNil
    /\ pc' = [pc EXCEPT ![i] = "done"]
    /\ frames' = [frames EXCEPT ![i] = <<>>]
    /\ handlerCalls' = [handlerCalls EXCEPT ![i] = @ + 1]
    /\ handlerArg' = [handlerArg EXCEPT ![i] = arityRet[i].err]
    /\ ret' = [ret EXCEPT ![i] = Returned(arityRet[i].results, NilError)]
    /\ UNCHANGED <<nilCompat, wrapper, fnLocal, fnCalls, fnOutcome, result, err, inflight,
                   stackSeen, arityRet, handlerOutcome, escaped, parent,
                   received, validateVars>>

\* Variant of InvokeHandler: the handler is called whatever err is.
InvokeHandlerAlways(i) ==
    /\ pc[i] = "check"
    /\ pc' = [pc EXCEPT ![i] = "handler"]
    /\ frames' = [frames EXCEPT ![i] = <<wrapper[i], "handler">>]
    /\ handlerCalls' = [handlerCalls EXCEPT ![i] = @ + 1]
    /\ handlerArg' = [handlerArg EXCEPT ![i] = arityRet[i].err]
    /\ UNCHANGED <<nilCompat, wrapper, fnLocal, fnCalls, fnOutcome, result, err, inflight,
                   stackSeen, arityRet, handlerOutcome, ret, escaped, parent,
                   received, validateVars>>

\* A handler variant finds err != nil and calls handler(err).
InvokeHandler(i) ==
    /\ pc[i] = "check"
    /\ ~arityRet[i].err.isNil
    /\ pc' = [pc EXCEPT ![i] = "handler"]
    /\ frames' = [frames EXCEPT ![i] = <<wrapper[i], "handler">>]
    /\ handlerCalls' = [handlerCalls EXCEPT ![i] = @ + 1]
    /\ handlerArg' = [handlerArg EXCEPT ![i] = arityRet[i].err]
    /\ UNCHANGED <<nilCompat, wrapper, fnLocal, fnCalls, fnOutcome, result, err, inflight,
                   stackSeen, arityRet, handlerOutcome, ret, escaped, parent,
                   received, validateVars>>

\* A handler variant finds err == nil and returns.
SkipHandler(i) ==
    /\ pc[i] = "check"
    /\ arityRet[i].err.isNil
    /\ pc' = [pc EXCEPT ![i] = "done"]
    /\ frames' = [frames EXCEPT ![i] = <<>>]
    /\ ret' = [ret EXCEPT ![i] =
           Returned(HandlerVariantReturn(arityRet[i].results, arityRet[i].err), NilError)]
    /\ UNCHANGED <<nilCompat, wrapper, fnLocal, fnCalls, fnOutcome, result, err, inflight,
                   stackSeen, arityRet, handlerCalls, handlerArg, handlerOutcome, escaped,
                   parent, received, validateVars>>

\* The handler returns, and the handler variant returns its results.
HandlerReturn(i) ==
    /\ pc[i] = "handler"
    /\ pc' = [pc EXCEPT ![i] = "done"]
    /\ frames' = [frames EXCEPT ![i] = <<>>]
    /\ handlerOutcome' = [handlerOutcome EXCEPT ![i] =
           [kind |-> "returned", values |-> <<>>, err |-> NilError, payload |-> NilValue]]
    /\ ret' = [ret EXCEPT ![i] =
           Returned(HandlerVariantReturn(arityRet[i].results, arityRet[i].err), NilError)]
    /\ UNCHANGED <<nilCompat, wrapper, fnLocal, fnCalls, fnOutcome, result, err, inflight,
                   stackSeen, arityRet, handlerCalls, handlerArg, escaped, parent,
                   received, validateVars>>

\* The handler calls panic(p).
HandlerPanic(i, p) ==
    /\ pc[i] = "handler"
    /\ pc' = [pc EXCEPT ![i] = "panicking"]
    /\ inflight' = [inflight EXCEPT ![i] = Panicking(PanicValue(p, nilCompat))]
    /\ handlerOutcome' = [handlerOutcome EXCEPT ![i] =
           [kind |-> "panicked", values |-> <<>>, err |-> NilError, payload |-> p]]
    /\ UNCHANGED <<nilCompat, wrapper, frames, fnLocal, fnCalls, fnOutcome, result, err,
                   stackSeen, arityRet, handlerCalls, handlerArg, ret, escaped,
                   parent, received, validateVars>>

\* The computation of call i calls wrapper w itself: a new call j, made
\* from inside the computation, on the same goroutine; the computation
\* waits for it.  A computation makes at most one such call.
NestedCall(i, j, w) ==
    /\ pc[i] = "fn"
    /\ j = i + 1
    /\ j \in CallIds
    /\ pc[j] = "idle"
    /\ \A k \in CallIds : parent[k] # i
    /\ pc' = [pc EXCEPT ![i] = "nested", ![j] = "fn"]
    /\ parent' = [parent EXCEPT ![j] = i]
    /\ wrapper' = [wrapper EXCEPT ![j] = w]
    /\ frames' = [frames EXCEPT ![j] = CallChain(w)]
    /\ result' = [result EXCEPT ![j] = ZeroResults(Arity(w))]
    /\ fnLocal' = [fnLocal EXCEPT ![j] = ZeroResults(Arity(w))]
    /\ err' = [err EXCEPT ![j] = NilError]
    /\ fnCalls' = [fnCalls EXCEPT ![j] = @ + 1]
    /\ UNCHANGED <<nilCompat, fnOutcome, inflight, stackSeen, arityRet, handlerCalls,
                   handlerArg, handlerOutcome, ret, escaped, received, validateVars>>

\* The wrapper called by the computation of call i has returned: the
\* computation goes on, holding the error it was given (a handler variant
\* gives none).
NestedReturn(i, j) ==
    /\ pc[i] = "nested"
    /\ parent[j] = i
    /\ pc[j] = "done"
    /\ pc' = [pc EXCEPT ![i] = "fn"]
    /\ received' = [received EXCEPT ![i] = ret[j].err]
    /\ UNCHANGED <<nilCompat, wrapper, frames, fnLocal, fnCalls, fnOutcome, result, err,
                   inflight, stackSeen, arityRet, handlerCalls, handlerArg,
                   handlerOutcome, ret, escaped, parent, validateVars>>

\* A panic has left the wrapper called by the computation of call i: it
\* goes on unwinding in the frames of call i.
NestedEscape(i, j) ==
    /\ pc[i] = "nested"
    /\ parent[j] = i
    /\ pc[j] = "escaped"
    /\ pc' = [pc EXCEPT ![i] = "panicking"]
    /\ inflight' = [inflight EXCEPT ![i] = escaped[j]]
    /\ fnOutcome' = [fnOutcome EXCEPT ![i] =
           [kind |-> "panicked", values |-> fnLocal[i], err |-> NilError,
            payload |-> escaped[j].value]]
    /\ UNCHANGED <<nilCompat, wrapper, frames, fnLocal, fnCalls, result, err, stackSeen,
                   arityRet, handlerCalls, handlerArg, handlerOutcome, ret, escaped,
                   parent, received, validateVars>>

\* One caller makes one wrapper call.
Callers == {1}

Next ==
    \/ \E i \in Callers, w \in Wrappers : Call(i, w)
    \/ \E i \in Callers, values \in UNION {ResultTuples(n) : n \in 1..3} : FnWrite(i, values)
    \/ \E i \in Callers, e \in FnErrors : FnReturn(i, e)
    \/ \E i \in Callers, p \in Payloads : FnPanic(i, p)
    \/ \E i \in Callers, stack \in Stacks : UnwindPanic(i, stack)
    \/ \E i \in Callers : InvokeHandler(i)
    \/ \E i \in Callers : SkipHandler(i)
    \/ \E i \in Callers : HandlerReturn(i)
    \/ \E i \in Callers, p \in Payloads : HandlerPanic(i, p)

Spec == Init /\ [][Next]_vars

(***************************************************************************)
(* Progress.  The wrappers are straight-line code on the caller's          *)
(* goroutine: once the computation has ended, the steps that belong to the *)
(* library (running the deferred function, testing err, calling the        *)
(* handler, returning) are always taken.  Nothing is assumed about the     *)
(* computation or the handler: either may run forever.                     *)
(***************************************************************************)
LibraryStep(i) ==
    \/ \E stack \in Stacks : UnwindPanic(i, stack)
    \/ InvokeHandler(i)
    \/ SkipHandler(i)

Fairness == \A i \in Callers : WF_vars(LibraryStep(i))

SpecLive == Init /\ [][Next]_vars /\ Fairness

(***************************************************************************)
(* Concurrent callers: every call in CallIds is made from a goroutine of   *)
(* its own, with its own computation and handler, and the steps of the     *)
(* calls interleave freely.  The inputs are drawn from smaller sets.       *)
(***************************************************************************)
ConcWrappers == {"SafeExec", "SafeExecWithResult", "SafeExecWithHandlerWithResult"}
ConcValues == {<<42>>}
ConcErrors == {NilError, NewError(TestErrorText, "fn")}
ConcPayloads == {StringValue(PanicTestText), NilValue}
ConcStacks == {<<"g", "1">>}

NextConc ==
    \/ \E i \in CallIds, w \in ConcWrappers : Call(i, w)
    \/ \E i \in CallIds, values \in ConcValues : FnWrite(i, values)
    \/ \E i \in CallIds, e \in ConcErrors : FnReturn(i, e)
    \/ \E i \in CallIds, p \in ConcPayloads : FnPanic(i, p)
    \/ \E i \in CallIds, stack \in ConcStacks : UnwindPanic(i, stack)
    \/ \E i \in CallIds : InvokeHandler(i)
    \/ \E i \in CallIds : SkipHandler(i)
    \/ \E i \in CallIds : HandlerReturn(i)
    \/ \E i \in CallIds, p \in ConcPayloads : HandlerPanic(i, p)

SpecConc == Init /\ [][NextConc]_vars

(***************************************************************************)
(* Nested wrappers: the caller makes call 1, and the computation of a call *)
(* may call a wrapper itself.  The inputs are drawn from smaller sets.     *)
(***************************************************************************)
NestWrappers == {"SafeExec", "SafeExecWithResult", "SafeExecWithHandler"}
NestValues == {<<42>>}
NestErrors == {NilError, NewError(TestErrorText, "fn")}
NestPayloads == {StringValue(PanicTestText), NilValue}
NestStacks == {<<"g", "1">>}

NextNested ==
    \/ \E i \in Callers, w \in NestWrappers : Call(i, w)
    \/ \E i, j \in CallIds, w \in NestWrappers : NestedCall(i, j, w)
    \/ \E i, j \in CallIds : NestedReturn(i, j)
    \/ \E i, j \in CallIds : NestedEscape(i, j)
    \/ \E i \in CallIds, values \in NestValues : FnWrite(i, values)
    \/ \E i \in CallIds, e \in NestErrors \cup {received[k] : k \in CallIds} : FnReturn(i, e)
    \/ \E i \in CallIds, p \in NestPayloads : FnPanic(i, p)
    \/ \E i \in CallIds, stack \in NestStacks : UnwindPanic(i, stack)
    \/ \E i \in CallIds : InvokeHandler(i)
    \/ \E i \in CallIds : SkipHandler(i)
    \/ \E i \in CallIds : HandlerReturn(i)
    \/ \E i \in CallIds, p \in NestPayloads : HandlerPanic(i, p)

SpecNested == Init /\ [][NextNested]_vars

(***************************************************************************)
(* Validate as a call of its own: the inputs are drawn at the start.       *)
(***************************************************************************)
InitValidate ==
    /\ nilCompat = FALSE
    /\ InitCalls
    /\ vDone = FALSE
    /\ vCondition \in BOOLEAN
    /\ vFormat \in Templates
    /\ vArgs \in ArgLists
    /\ vErr = NilError

ValidateCall ==
    /\ ~vDone
    /\ vDone' = TRUE
    /\ vErr' = Validate(vCondition, vFormat, vArgs)
    /\ UNCHANGED <<nilCompat, callVars, vCondition, vFormat, vArgs>>

NextValidate == ValidateCall

SpecValidate == InitValidate /\ [][NextValidate]_vars

(***************************************************************************)
(* Properties.                                                             *)
(***************************************************************************)
TypedArityVariants ==
    {"SafeExecWithResult", "SafeExecWithTwoResults", "SafeExecWithThreeResults"}
TypedHandlerVariants ==
    {"SafeExecWithHandlerWithResult", "SafeExecWithHandlerWithTwoResults",
     "SafeExecWithHandlerWithThreeResults"}

\* The call has left the computation and is not unwinding a panic.
FnOver(i) == fnOutcome[i].kind # "none" /\ pc[i] # "panicking"

\* C1: SafeExec and the arity variants never let a panic out: whatever the
\* computation does (return nil, return an error, panic with any payload),
\* once it has ended the wrapper has returned normally, and no panic ever
\* leaves the call.
C1_NeverTerminatesAbnormally ==
    \A i \in CallIds :
        wrapper[i] \in ArityVariants =>
            /\ pc[i] # "escaped"
            /\ ~escaped[i].active
            /\ FnOver(i) => pc[i] = "done" /\ ret[i].set /\ ~inflight[i].active

C1_Witness ==
    \E i \in CallIds :
        /\ wrapper[i] \in ArityVariants
        /\ fnOutcome[i].kind = "panicked"
        /\ pc[i] = "done"
        /\ ret[i].set

\* The text of the value a panic with argument p carries.
PayloadText(p) == DefaultFormat(PanicValue(p, nilCompat))

\* C2: when the computation panicked with payload P, SafeExec and every
\* arity variant return a non-nil error made by SafeExec whose text is
\* "panic occurred: " + text of P + "\nStack trace:\n" + the stack trace,
\* which contains "panic occurred:" and the text of P.
C2_PanicBecomesError ==
    \A i \in CallIds :
        (wrapper[i] \in ArityVariants /\ pc[i] = "done"
         /\ fnOutcome[i].kind = "panicked") =>
            /\ ~ret[i].err.isNil
            /\ ret[i].err.origin = "SafeExec"
            /\ ret[i].err.text =
                 PanicPrefix \o PayloadText(fnOutcome[i].payload)
                     \o StackTraceHeader \o stackSeen[i]
            /\ Contains(ret[i].err.text, PanicOccurred)
            /\ Contains(ret[i].err.text, PayloadText(fnOutcome[i].payload))

\* C3: when the computation panicked, the typed arity variants return
\* every result slot at its zero value, also when the computation had
\* written non-zero values to its own result variables before.
C3_ZeroResultsOnPanic ==
    \A i \in CallIds :
        (wrapper[i] \in TypedArityVariants /\ pc[i] = "done"
         /\ fnOutcome[i].kind = "panicked") =>
            ret[i].results = ZeroResults(Arity(wrapper[i]))

C3_Witness ==
    \E i \in CallIds :
        /\ wrapper[i] \in TypedArityVariants
        /\ pc[i] = "done"
        /\ fnOutcome[i].kind = "panicked"
        /\ fnOutcome[i].values # ZeroResults(Arity(wrapper[i]))
        /\ ~ret[i].err.isNil

\* C4: when the computation returned, SafeExec and the arity variants
\* return exactly its values and exactly its error (nil stays nil, a
\* non-nil error is the same error); SafeExecWithNoResult returns nil.
C4_TransparentOnReturn ==
    \A i \in CallIds :
        (wrapper[i] \in ArityVariants /\ pc[i] = "done"
         /\ fnOutcome[i].kind = "returned") =>
            /\ ret[i].results = fnOutcome[i].values
            /\ ret[i].err = fnOutcome[i].err
            /\ wrapper[i] = "SafeExecWithNoResult" => ret[i].err.isNil

C4_Witness ==
    \E i \in CallIds :
        /\ wrapper[i] = "SafeExecWithThreeResults"
        /\ pc[i] = "done"
        /\ fnOutcome[i].kind = "returned"
        /\ ret[i].results = <<42, HelloText, TRUE>>
        /\ ret[i].err = NewError(TestErrorText, "fn")

\* C5: in a handler variant, once the arity call has yielded its error:
\* if it is non-nil the handler is invoked exactly once, with that same
\* error; if it is nil the handler is never invoked.
C5_HandlerOnceOnError ==
    \A i \in CallIds :
        /\ handlerCalls[i] <= 1
        /\ handlerCalls[i] = 1 =>
               /\ wrapper[i] \in HandlerVariants
               /\ arityRet[i].set
               /\ ~arityRet[i].err.isNil
               /\ handlerArg[i] = arityRet[i].err
        /\ (wrapper[i] \in HandlerVariants /\ pc[i] \in {"done", "escaped"}) =>
               handlerCalls[i] = (IF arityRet[i].err.isNil THEN 0 ELSE 1)

C5_Witness ==
    \E i \in CallIds :
        /\ wrapper[i] \in HandlerVariants
        /\ pc[i] = "done"
        /\ fnOutcome[i].kind = "panicked"
        /\ handlerCalls[i] = 1
        /\ handlerArg[i].origin = "SafeExec"

\* C6: a typed handler variant returns exactly the results the arity
\* variant produced, whether or not the handler ran.
C6_HandlerKeepsResults ==
    \A i \in CallIds :
        (wrapper[i] \in TypedHandlerVariants /\ pc[i] = "done") =>
            /\ ret[i].set
            /\ ret[i].results = arityRet[i].results

C6_Witness ==
    \E i \in CallIds :
        /\ wrapper[i] \in TypedHandlerVariants
        /\ pc[i] = "done"
        /\ handlerCalls[i] = 1
        /\ handlerOutcome[i].kind = "returned"
        /\ ret[i].results # ZeroResults(Arity(wrapper[i]))

\* C7: when the computation returned non-zero values together with a
\* non-nil error, the typed handler variants return zero-valued results
\* (README: "Output: 0").
C7_ZeroResultsOnReturnedError ==
    \A i \in CallIds :
        (wrapper[i] \in TypedHandlerVariants /\ pc[i] = "done"
         /\ fnOutcome[i].kind = "returned" /\ ~fnOutcome[i].err.isNil) =>
            /\ ret[i].results[1] = 0
            /\ ret[i].results = ZeroResults(Arity(wrapper[i]))

\* C8: Validate(false, template, args...) returns a non-nil error whose
\* text is the template formatted once with the arguments.
C8_ValidateTextVerbatim ==
    (vDone /\ ~vCondition) =>
        /\ ~vErr.isNil
        /\ vErr.text = Sprintf(vFormat, vArgs)

\* C9: Validate(true, ...) returns nil whatever the template and the
\* arguments are, and Validate returns a non-nil error exactly when the
\* condition is false.
C9_ValidateNilIffTrue ==
    vDone =>
        /\ vCondition => vErr = NilError
        /\ ~vErr.isNil <=> ~vCondition

C9_Witness ==
    /\ vDone
    /\ vCondition
    /\ Len(vFormat) > 0
    /\ Len(vArgs) > 0
    /\ vErr = NilError

\* C10: a panic of the handler is not recovered by the library: it is
\* never turned into a return of the handler variant, and it leaves the
\* call carrying the handler's value; a panic that leaves a call is
\* always the handler's, never the computation's.
C10_HandlerPanicPropagates ==
    \A i \in CallIds :
        /\ handlerOutcome[i].kind = "panicked" =>
               /\ pc[i] \in {"panicking", "escaped"}
               /\ ~ret[i].set
               /\ pc[i] = "escaped" =>
                      /\ escaped[i].active
                      /\ escaped[i].value = PanicValue(handlerOutcome[i].payload, nilCompat)
        /\ pc[i] = "escaped" => handlerOutcome[i].kind = "panicked"

C10_Witness ==
    \E i \in CallIds :
        /\ wrapper[i] \in HandlerVariants
        /\ handlerOutcome[i].kind = "panicked"
        /\ pc[i] = "escaped"
        /\ escaped[i].active

\* C12: in a handler variant the handler starts only after the wrapped
\* computation has finished (returned, or its panic was intercepted) and
\* the arity call has returned, and the handler variant returns its results
\* only after the handler has finished.
C12_HandlerInOrder ==
    \A i \in CallIds :
        /\ handlerCalls[i] > 0 =>
               /\ fnOutcome[i].kind # "none"
               /\ arityRet[i].set
        /\ pc[i] = "handler" =>
               /\ ~inflight[i].active
               /\ frames[i] = <<wrapper[i], "handler">>
               /\ ~ret[i].set
        /\ (ret[i].set /\ handlerCalls[i] > 0) => handlerOutcome[i].kind = "returned"

C12_Witness ==
    \E i \in CallIds :
        /\ wrapper[i] = "SafeExecWithHandler"
        /\ pc[i] = "done"
        /\ fnOutcome[i].kind = "returned"
        /\ handlerCalls[i] = 1
        /\ handlerOutcome[i].kind = "returned"
        /\ ret[i].set

\* C14: every panic of the computation is reported as a non-nil error,
\* whatever the payload is, nil included: the arity call never yields a
\* nil error for a computation that panicked, and a handler variant then
\* invokes its handler.
C14_EveryPanicReported ==
    \A i \in CallIds :
        (fnOutcome[i].kind = "panicked" /\ arityRet[i].set) =>
            /\ ~arityRet[i].err.isNil
            /\ (wrapper[i] \in HandlerVariants /\ pc[i] \in {"done", "escaped"}) =>
                   handlerCalls[i] = 1

\* C15: every wrapper invokes the wrapped computation exactly once per
\* call, whether the computation returns nil, returns an error or panics:
\* once the wrapper is entered the computation has been invoked once, it
\* is never invoked again, and a call that is over has seen it end.
C15_FnInvokedOnce ==
    \A i \in CallIds :
        /\ fnCalls[i] = (IF pc[i] = "idle" THEN 0 ELSE 1)
        /\ pc[i] \in {"done", "escaped"} => fnOutcome[i].kind # "none"

C15_Witness ==
    \E i \in CallIds :
        /\ wrapper[i] \in HandlerVariants
        /\ pc[i] = "done"
        /\ fnOutcome[i].kind = "panicked"
        /\ handlerOutcome[i].kind = "returned"
        /\ fnCalls[i] = 1

\* The call is over: it returned, or a panic left it.
CallOver(i) == pc[i] \in {"done", "escaped"}

\* C13: a wrapper call has no timeout and no suspension point of its own:
\* it is never over while the computation has not ended; once the
\* computation has ended (returned or panicked) SafeExec and the arity
\* variants eventually return, and a handler variant eventually returns or
\* is in its handler; once the handler has ended the handler variant is
\* eventually over.
C13_NoTimeoutNoBlocking ==
    \A i \in Callers :
        /\ [](CallOver(i) => fnOutcome[i].kind # "none")
        /\ (fnOutcome[i].kind # "none" /\ wrapper[i] \in ArityVariants)
               ~> (pc[i] = "done" /\ ret[i].set)
        /\ (fnOutcome[i].kind # "none" /\ wrapper[i] \in HandlerVariants)
               ~> (CallOver(i) \/ pc[i] = "handler")
        /\ (handlerOutcome[i].kind = "returned") ~> (pc[i] = "done" /\ ret[i].set)
        /\ (handlerOutcome[i].kind = "panicked") ~> (pc[i] = "escaped")

C13_Witness ==
    \E i \in Callers :
        /\ wrapper[i] \in TypedHandlerVariants
        /\ fnOutcome[i].kind = "panicked"
        /\ handlerOutcome[i].kind = "returned"
        /\ pc[i] = "done"
        /\ ret[i].set

\* What a sequential run of one call yields, as a function of what its
\* own computation and its own handler did: the arity call's results and
\* error ...
SequentialArity(i) ==
    IF fnOutcome[i].kind = "returned"
    THEN Returned(fnOutcome[i].values, fnOutcome[i].err)
    ELSE Returned(ZeroResults(Arity(wrapper[i])),
                  IF PanicValue(fnOutcome[i].payload, nilCompat).type = "nil"
                  THEN NilError
                  ELSE NewError(PanicPrefix \o PayloadText(fnOutcome[i].payload)
                                    \o StackTraceHeader \o stackSeen[i],
                                "SafeExec"))

\* ... and what the call hands to its caller and to its handler.
SequentialOutcome(i) ==
    LET a == SequentialArity(i)
        isHandler == wrapper[i] \in HandlerVariants
        called == isHandler /\ ~a.err.isNil
        thrown == called /\ handlerOutcome[i].kind = "panicked"
    IN [ret |-> IF thrown THEN NoReturn
                ELSE IF isHandler THEN Returned(a.results, NilError)
                ELSE a,
        escaped |-> IF thrown
                    THEN Panicking(PanicValue(handlerOutcome[i].payload, nilCompat))
                    ELSE NoPanic,
        handlerCalls |-> IF called THEN 1 ELSE 0,
        handlerArg |-> IF called THEN a.err ELSE NilError]

\* C11: when several calls run concurrently, each with its own computation
\* and handler, every call that is over has, under every interleaving, the
\* results, the error and the handler invocations that a sequential run of
\* that call alone yields.
C11_ConcurrentAsSequential ==
    \A i \in CallIds :
        CallOver(i) =>
            [ret |-> ret[i], escaped |-> escaped[i],
             handlerCalls |-> handlerCalls[i], handlerArg |-> handlerArg[i]]
                = SequentialOutcome(i)

\* Two calls are over, one whose computation returned a value and one
\* whose computation wrote a value and panicked.
C11_Witness ==
    \E i, j \in CallIds :
        /\ i # j
        /\ CallOver(i) /\ CallOver(j)
        /\ fnOutcome[i].kind = "returned" /\ ret[i].results = <<42>>
        /\ fnOutcome[j].kind = "panicked" /\ fnOutcome[j].values = <<42>>
        /\ wrapper[j] = "SafeExecWithHandlerWithResult"
        /\ handlerCalls[j] = 1

\* Call j was made by the computation of call i, j is SafeExec or an
\* arity variant, and the computation of j panicked.
InnerPanicked(i, j) ==
    /\ parent[j] = i
    /\ wrapper[j] \in ArityVariants
    /\ fnOutcome[j].kind = "panicked"

\* ... and the computation of call i returned the error that j gave it.
ReturnedInnerError(i, j) ==
    /\ InnerPanicked(i, j)
    /\ pc[j] = "done"
    /\ fnOutcome[i].kind = "returned"
    /\ received[i] = ret[j].err
    /\ fnOutcome[i].err = received[i]

\* C16: when the computation of a call calls a wrapper whose computation
\* panics, the panic is intercepted by that inner wrapper and never reaches
\* the frames of the enclosing call; the enclosing wrapper, whose
\* computation returns the inner wrapper's error, yields that same error
\* (not wrapped again), and an enclosing handler variant invokes its
\* handler exactly once, with that error.
C16_NestedPanicCaughtOnce ==
    \A i, j \in CallIds :
        /\ InnerPanicked(i, j) =>
               /\ pc[j] # "escaped"
               /\ pc[i] = "nested" => ~inflight[i].active
        /\ (ReturnedInnerError(i, j) /\ arityRet[i].set) =>
               /\ arityRet[i].err = ret[j].err
               /\ stackSeen[i] = <<>>
        /\ (ReturnedInnerError(i, j) /\ wrapper[i] \in HandlerVariants /\ CallOver(i)) =>
               /\ handlerCalls[i] = 1
               /\ handlerArg[i] = ret[j].err

====
